---- MODULE Spec2Model ----
(***************************************************************************)
(* A model of the game AI plugin: the dialogue orchestrator                *)
(* (AIManager.generateNpcDialogue), the text generation client             *)
(* (GeminiService) and the speech synthesis client (ElevenLabsTTSService). *)
(*                                                                         *)
(* Spec        the orchestrator: construction, then up to MaxReq           *)
(*             overlapping generateNpcDialogue calls, one action per       *)
(*             await point of the async function.                          *)
(* FairSpec    Spec, where every call a request awaits settles in the end. *)
(* SpecText    the text client alone: construction, generateText calls.    *)
(* SpecSpeech  the speech client alone: construction, generateSpeech calls.*)
(* SpecPrompt  the prompt alone: a context snapshot, the prompt built from  *)
(*             it, the request that carries it.                            *)
(* SpecClients both clients with their configuration: process.env changes, *)
(*             construction with or without a model argument, calls.       *)
(***************************************************************************)
EXTENDS Integers, Sequences, FiniteSets, TLC

VARIABLES
    env,            \* process.env: the two model variables
    mgr,            \* the AIManager under construction / constructed
    pc,             \* per request: the await point the async call is suspended at
    entityId,       \* per request: the entityId argument
    npcState,       \* per request: const npcState
    playerState,    \* per request: const playerState
    gameState,      \* per request: const gameState
    dialogueText,   \* per request: const dialogueText
    audioData,      \* per request: const audioData
    promise,        \* per request: state of the promise generateNpcDialogue returned
    calls,          \* per request: the external calls it issued, in order, with results
    displayed,      \* the adapter: per entity, the dialogue text it shows
    tx,             \* the text client of SpecText
    sp              \* the speech client of SpecSpeech

reqVars == <<pc, entityId, npcState, playerState, gameState, dialogueText,
             audioData, promise, calls, displayed>>
vars == <<env, mgr, reqVars, tx, sp>>

----------------------------------------------------------------------------
(* Bounds *)

MaxReq == 2        \* overlapping generateNpcDialogue calls
MaxCands == 2      \* candidates in a provider response
MaxParts == 2      \* parts in a candidate's content
MaxCalls == 2      \* generate calls made on one stand-alone client

----------------------------------------------------------------------------
(* JavaScript values.  undefined and null are sentinels distinct from every *)
(* string the program handles; the empty string is the empty string.        *)

Absent == "<undefined>"
Null == "<null>"

\* JavaScript truthiness of a value of type string | undefined | null
Truthy(x) == x \notin {Absent, Null, ""}

\* a || b on such values
OrElse(a, b) == IF Truthy(a) THEN a ELSE b

\* how a call of an async client method ends: its promise resolves with a
\* value, or rejects
Returns(v) == [raised |-> FALSE, value |-> v]
Raises == [raised |-> TRUE, value |-> Absent]

----------------------------------------------------------------------------
(* Text generation client: GeminiService *)

DefaultGeminiModel == "gemini-1.5-flash"

\* new GoogleGenAI({ apiKey }) belongs to the provider SDK.  With a usable key
\* it returns a handle; without one the SDK build decides whether it throws.
GoogleGenAIMayThrow(apiKey) == IF Truthy(apiKey) THEN {FALSE} ELSE {FALSE, TRUE}

\* new GeminiService(apiKey, modelName) with process.env = envv
GeminiService(apiKey, modelName, envv, sdkThrows) ==
    IF sdkThrows
    THEN [threw |-> TRUE, error |-> "GoogleGenAI", apiKey |-> apiKey,
          modelName |-> Absent]
    ELSE [threw |-> FALSE, error |-> "", apiKey |-> apiKey,
          modelName |-> OrElse(modelName,
                               OrElse(envv.GEMINI_MODEL_NAME, DefaultGeminiModel))]

\* (mutant: the model is resolved when the request is made)
TextRequestLateEnv(svc, prompt) ==
    [model |-> OrElse(env.GEMINI_MODEL_NAME, svc.modelName), role |-> "user",
     text |-> prompt]

\* the argument of genAI.models.generateContent
TextRequest(svc, prompt) ==
    [model |-> svc.modelName, role |-> "user", text |-> prompt]

\* Provider responses.  A part is {text?}, a candidate is {content?: {parts?}},
\* a response is {candidates?}.
PartTexts == {Absent, "", "Greetings, traveler.", "Hello, world!"}

SeqsUpTo(S, n) == UNION {[1..k -> S] : k \in 0..n}

Candidates(texts, maxP) ==
    {[hasContent |-> FALSE, hasParts |-> FALSE, parts |-> <<>>],
     [hasContent |-> TRUE, hasParts |-> FALSE, parts |-> <<>>]}
    \cup {[hasContent |-> TRUE, hasParts |-> TRUE, parts |-> ps] :
             ps \in SeqsUpTo(texts, maxP)}

\* what awaiting generateContent yields: a rejection, or a response
ProviderOutcomes(texts, maxC, maxP) ==
    {[threw |-> TRUE, hasCandidates |-> FALSE, candidates |-> <<>>],
     [threw |-> FALSE, hasCandidates |-> FALSE, candidates |-> <<>>]}
    \cup {[threw |-> FALSE, hasCandidates |-> TRUE, candidates |-> cs] :
             cs \in SeqsUpTo(Candidates(texts, maxP), maxC)}

\* (mutant: the first non-empty text of any candidate and part is taken)
FirstTextAnywhere(result) ==
    LET found == {t \in {"Greetings, traveler.", "Hello, world!"} :
                    \E i \in 1..Len(result.candidates) :
                      \E j \in 1..Len(result.candidates[i].parts) :
                        result.candidates[i].parts[j] = t}
    IN  IF found = {} THEN Absent ELSE CHOOSE t \in found : TRUE

\* result.candidates?.[0]?.content?.parts?.[0]?.text
FirstText(result) ==
    IF ~result.hasCandidates \/ Len(result.candidates) = 0 THEN Absent
    ELSE LET c == result.candidates[1] IN
         IF ~c.hasContent \/ ~c.hasParts \/ Len(c.parts) = 0 THEN Absent
         ELSE c.parts[1]

\* how generateText ends for a provider outcome
generateText(outcome) ==
    IF outcome.threw THEN Returns(Null)            \* catch (error)
    ELSE LET text == FirstText(outcome) IN
         IF Truthy(text) THEN Returns(text) ELSE Returns(Null)

----------------------------------------------------------------------------
(* Speech synthesis client: ElevenLabsTTSService *)

DefaultElevenLabsModel == "eleven_multilingual_v2"
DefaultVoiceId == "21m00Tcm4TlvDq8ikWAM"
KeyRequired == "ElevenLabs API key is required."

\* (mutant: the key check rejects only an absent key)
ElevenLabsTTSServiceUndefinedOnly(apiKey, modelId, envv) ==
    IF apiKey = Absent
    THEN [threw |-> TRUE, error |-> KeyRequired, apiKey |-> apiKey,
          voiceId |-> Absent, modelId |-> Absent]
    ELSE [threw |-> FALSE, error |-> "", apiKey |-> apiKey,
          voiceId |-> DefaultVoiceId,
          modelId |-> OrElse(modelId,
                             OrElse(envv.ELEVENLABS_MODEL_ID, DefaultElevenLabsModel))]

\* new ElevenLabsTTSService(apiKey, modelId) with process.env = envv
ElevenLabsTTSService(apiKey, modelId, envv) ==
    IF ~Truthy(apiKey)
    THEN [threw |-> TRUE, error |-> KeyRequired, apiKey |-> apiKey,
          voiceId |-> Absent, modelId |-> Absent]
    ELSE [threw |-> FALSE, error |-> "", apiKey |-> apiKey,
          voiceId |-> DefaultVoiceId,
          modelId |-> OrElse(modelId,
                             OrElse(envv.ELEVENLABS_MODEL_ID, DefaultElevenLabsModel))]

\* the fetch(url, init) generateSpeech issues
SpeechRequest(svc, text) ==
    [method |-> "POST", voiceId |-> svc.voiceId, apiKey |-> svc.apiKey,
     text |-> text, model_id |-> svc.modelId]

\* What the transport can do: fetch rejects, or resolves with a response of
\* some status whose body (audio bytes, or an error text) can be read or not.
HttpStatuses == {199, 200, 204, 299, 300, 401, 500}
Bodies == {"", "audio-1", "audio-2"}

HttpOutcomes(statuses, bodies) ==
    [fetchThrows : BOOLEAN, status : statuses, body : bodies, readThrows : BOOLEAN]

\* (mutant: only 200 counts as success)
ResponseOkOnly200(status) == status = 200

\* Response.ok
ResponseOk(status) == status >= 200 /\ status <= 299

\* how generateSpeech ends for a transport outcome; every throw inside the
\* try block lands in the catch, which returns null
generateSpeech(outcome) ==
    IF outcome.fetchThrows THEN Returns(Null)               \* fetch rejected
    ELSE IF ~ResponseOk(outcome.status) THEN Returns(Null)  \* text() read or not, then throw
    ELSE IF outcome.readThrows THEN Returns(Null)           \* arrayBuffer() rejected
    ELSE Returns(outcome.body)

----------------------------------------------------------------------------
(* The host game behind the adapter: the entities a caller can name and the *)
(* state records the adapter resolves with.                                 *)

Entities == {"npc-1", "npc-2"}

NoState == [defined |-> FALSE, name |-> Absent, personality |-> Absent,
            level |-> 0, location |-> Absent, timeOfDay |-> Absent]

EntityStateOf(e) ==
    IF e = "npc-1"
    THEN [NoState EXCEPT !.defined = TRUE, !.name = "Mysterious Old Man",
                         !.personality = "cryptic and wise"]
    ELSE [NoState EXCEPT !.defined = TRUE, !.name = "Gate Guard"]

ThePlayerState == [NoState EXCEPT !.defined = TRUE, !.name = "Eldrin", !.level = 5]

TheGameState == [NoState EXCEPT !.defined = TRUE,
                                !.location = "the Whispering Woods",
                                !.timeOfDay = "dusk"]

\* how an awaited adapter promise settles: with its record or by rejecting;
\* getEntityState may also resolve with undefined (an id the game does not know)
Settlements == {"ok", "throw"}
EntitySettlements == Settlements \cup {"undefined"}

\* how a call of a void adapter method (showDialogue) or of playAudio ends
Endings == {"ok", "throw"}

Fallback == "..."
DefaultPersonality == "a mysterious stranger"

\* (mutant: only an undefined personality is replaced, as with ??)
PromptNullish(npc, player, game) ==
    <<npc.name,
      IF npc.personality = Absent THEN DefaultPersonality ELSE npc.personality,
      player.name, ToString(player.level), game.location, game.timeOfDay>>

\* The prompt template's six interpolations, in order; the fixed text around
\* them is the same in every prompt.
Prompt(npc, player, game) ==
    <<npc.name, OrElse(npc.personality, DefaultPersonality), player.name,
      ToString(player.level), game.location, game.timeOfDay>>

----------------------------------------------------------------------------
(* The orchestrator: AIManager *)

\* (mutant: the null check on the generated text is missing)
TextFailedUnchecked(text) == FALSE

\* if (!dialogueText)
TextFailed(text) == ~Truthy(text)

\* (mutant: the null check on the audio is missing)
AudioFailedUnchecked(audio) == FALSE

\* if (!audioData), on an ArrayBuffer | null
AudioFailed(audio) == audio = Null

\* (mutant: the speech client is given the fallback text, not the generated one)
SpeechArgsFallback(text) == <<Fallback>>

\* (mutant: the entity id is kept in a field of the orchestrator, which
\* the call started last has overwritten)
PlayArgsSharedEntity(audio, e) ==
    <<audio, entityId[CHOOSE r \in 1..MaxReq :
                        pc[r] # "idle" /\ \A q \in 1..MaxReq : q > r => pc[q] = "idle"]>>

\* the arguments of the calls generateNpcDialogue makes
ShowArgs(text, e) == <<text, e>>          \* adapter.showDialogue(dialogueText, { entityId })
SpeechArgs(text) == <<text>>              \* ttsService.generateSpeech(dialogueText)
PlayArgs(audio, e) == <<audio, e>>        \* adapter.playAudio(audioData, { entityId })
FallbackArgs(e) == <<Fallback, e>>        \* adapter.showDialogue("...", { entityId })

Requests == 1..MaxReq

\* the adapter after a showDialogue(text, { entityId: e }) that returned
Show(shown, text, e) == [shown EXCEPT ![e] = text]

\* an external call as the request's log keeps it: the operation, its
\* arguments, how it ended ("pending" while awaited) and the value it gave
Issued(op, args) == [op |-> op, args |-> args, res |-> "pending", val |-> Absent]
Ended(op, args, res, val) == [op |-> op, args |-> args, res |-> res, val |-> val]

\* the log with its last (pending) call settled
Settle(log, res, val) ==
    [log EXCEPT ![Len(log)] = [@ EXCEPT !.res = res, !.val = val]]

\* the options a host passes to new AIManager(adapter, options)
GeminiKeys == {"", "key"}
ElevenLabsKeys == {Absent, "", "key"}
ModelArgs == {Absent}

\* new AIManager(adapter, options)
AIManager(options, envv, sdkThrows) ==
    LET llm == GeminiService(options.geminiApiKey, options.geminiModelName,
                             envv, sdkThrows)
        tts == ElevenLabsTTSService(options.elevenLabsApiKey,
                                    options.elevenLabsModelId, envv)
    IN  IF llm.threw
        THEN [status |-> "threw", error |-> llm.error, options |-> options,
              llm |-> llm, tts |-> [tts EXCEPT !.error = "not constructed"]]
        ELSE IF tts.threw
        THEN [status |-> "threw", error |-> tts.error, options |-> options,
              llm |-> llm, tts |-> tts]
        ELSE [status |-> "ok", error |-> "", options |-> options,
              llm |-> llm, tts |-> tts]

NoEnv == [GEMINI_MODEL_NAME |-> Absent, ELEVENLABS_MODEL_ID |-> Absent]
NoOptions == [geminiApiKey |-> Absent, elevenLabsApiKey |-> Absent,
              geminiModelName |-> Absent, elevenLabsModelId |-> Absent]
NoService == [threw |-> FALSE, error |-> "not constructed", apiKey |-> Absent,
              voiceId |-> Absent, modelId |-> Absent]
NoManager == [status |-> "none", error |-> "", options |-> NoOptions,
              llm |-> [threw |-> FALSE, error |-> "not constructed",
                       apiKey |-> Absent, modelName |-> Absent],
              tts |-> NoService]

IdleClient == [pc |-> "unused"]

\* no request has been made of the orchestrator
NoRequests ==
    /\ pc = [r \in Requests |-> "idle"]
    /\ entityId = [r \in Requests |-> Absent]
    /\ npcState = [r \in Requests |-> NoState]
    /\ playerState = [r \in Requests |-> NoState]
    /\ gameState = [r \in Requests |-> NoState]
    /\ dialogueText = [r \in Requests |-> Absent]
    /\ audioData = [r \in Requests |-> Absent]
    /\ promise = [r \in Requests |-> "none"]
    /\ calls = [r \in Requests |-> <<>>]
    /\ displayed = [e \in Entities |-> Absent]

Init ==
    /\ env = NoEnv
    /\ mgr = NoManager
    /\ NoRequests
    /\ tx = IdleClient
    /\ sp = IdleClient

Construct ==
    /\ mgr.status = "none"
    /\ \E gk \in GeminiKeys, ek \in ElevenLabsKeys, gm \in ModelArgs, em \in ModelArgs :
         \E sdkThrows \in GoogleGenAIMayThrow(gk) :
           mgr' = AIManager([geminiApiKey |-> gk, elevenLabsApiKey |-> ek,
                             geminiModelName |-> gm, elevenLabsModelId |-> em],
                            env, sdkThrows)
    /\ UNCHANGED <<env, reqVars, tx, sp>>

\* (mutant: the catch block starts the request again)
CatchAndRetry(r, log) ==
    /\ calls' = [calls EXCEPT ![r] = <<Issued("getEntityState", <<entityId[r]>>)>>]
    /\ pc' = [pc EXCEPT ![r] = "awaitEntity"]
    /\ UNCHANGED <<promise, displayed>>

\* (mutant: the catch block only logs)
CatchAndLog(r, log) ==
    /\ calls' = [calls EXCEPT ![r] = log]
    /\ pc' = [pc EXCEPT ![r] = "done"]
    /\ promise' = [promise EXCEPT ![r] = "resolved"]
    /\ UNCHANGED displayed

\* the catch block: the fallback showDialogue, which returns or throws; the
\* async function then ends and its promise settles accordingly
Catch(r, log) ==
    \E sh \in Endings :
      /\ calls' = [calls EXCEPT ![r] =
             Append(log, Ended("showDialogue", FallbackArgs(entityId[r]), sh, Absent))]
      /\ pc' = [pc EXCEPT ![r] = "done"]
      /\ promise' = [promise EXCEPT ![r] = IF sh = "ok" THEN "resolved" ELSE "rejected"]
      /\ displayed' = IF sh = "ok" THEN Show(displayed, Fallback, entityId[r])
                                  ELSE displayed

\* (mutant: a call for an entity waits while another call for it is running)
CallWhenEntityFree(r, e) ==
    /\ mgr.status = "ok"
    /\ pc[r] = "idle"
    /\ \A q \in Requests : q < r => pc[q] # "idle"
    /\ \A q \in Requests : pc[q] \in {"idle", "done"} \/ entityId[q] # e
    /\ entityId' = [entityId EXCEPT ![r] = e]
    /\ promise' = [promise EXCEPT ![r] = "pending"]
    /\ calls' = [calls EXCEPT ![r] = <<Issued("getEntityState", <<e>>)>>]
    /\ pc' = [pc EXCEPT ![r] = "awaitEntity"]
    /\ UNCHANGED <<env, mgr, npcState, playerState, gameState, dialogueText,
                   audioData, displayed, tx, sp>>

\* (mutant: the entity and the player are fetched together)
CallFetchesTogether(r, e) ==
    /\ mgr.status = "ok"
    /\ pc[r] = "idle"
    /\ \A q \in Requests : q < r => pc[q] # "idle"
    /\ entityId' = [entityId EXCEPT ![r] = e]
    /\ promise' = [promise EXCEPT ![r] = "pending"]
    /\ calls' = [calls EXCEPT ![r] = <<Issued("getEntityState", <<e>>),
                                       Issued("getPlayerState", <<>>)>>]
    /\ pc' = [pc EXCEPT ![r] = "awaitPlayer"]
    /\ UNCHANGED <<env, mgr, npcState, playerState, gameState, dialogueText,
                   audioData, displayed, tx, sp>>

\* a host calls generateNpcDialogue(e): runs to the first await
Call(r, e) ==
    /\ mgr.status = "ok"
    /\ pc[r] = "idle"
    /\ \A q \in Requests : q < r => pc[q] # "idle"   \* requests are numbered as they start
    /\ entityId' = [entityId EXCEPT ![r] = e]
    /\ promise' = [promise EXCEPT ![r] = "pending"]
    /\ calls' = [calls EXCEPT ![r] = <<Issued("getEntityState", <<e>>)>>]
    /\ pc' = [pc EXCEPT ![r] = "awaitEntity"]
    /\ UNCHANGED <<env, mgr, npcState, playerState, gameState, dialogueText,
                   audioData, displayed, tx, sp>>

\* await adapter.getEntityState(entityId) settles
EntitySettles(r) ==
    /\ pc[r] = "awaitEntity"
    /\ \E how \in EntitySettlements :
         IF how = "throw"
         THEN /\ Catch(r, Settle(calls[r], "throw", Absent))
              /\ UNCHANGED npcState
         ELSE /\ npcState' = [npcState EXCEPT ![r] =
                     IF how = "ok" THEN EntityStateOf(entityId[r]) ELSE NoState]
              /\ calls' = [calls EXCEPT ![r] =
                     Append(Settle(@, "ok", how), Issued("getPlayerState", <<>>))]
              /\ pc' = [pc EXCEPT ![r] = "awaitPlayer"]
              /\ UNCHANGED <<promise, displayed>>
    /\ UNCHANGED <<env, mgr, entityId, playerState, gameState, dialogueText,
                   audioData, tx, sp>>

\* await adapter.getPlayerState() settles
PlayerSettles(r) ==
    /\ pc[r] = "awaitPlayer"
    /\ \E how \in Settlements :
         IF how = "throw"
         THEN /\ Catch(r, Settle(calls[r], "throw", Absent))
              /\ UNCHANGED playerState
         ELSE /\ playerState' = [playerState EXCEPT ![r] =
                     IF how = "ok" THEN ThePlayerState ELSE NoState]
              /\ calls' = [calls EXCEPT ![r] =
                     Append(Settle(@, "ok", how), Issued("getGameState", <<>>))]
              /\ pc' = [pc EXCEPT ![r] = "awaitGame"]
              /\ UNCHANGED <<promise, displayed>>
    /\ UNCHANGED <<env, mgr, entityId, npcState, gameState, dialogueText,
                   audioData, tx, sp>>

\* await adapter.getGameState() settles; the prompt is built (reading a field
\* of undefined throws) and generateText is called
GameSettles(r) ==
    /\ pc[r] = "awaitGame"
    /\ \E how \in Settlements :
         LET game == IF how = "ok" THEN TheGameState ELSE NoState
             log == Settle(calls[r], IF how = "throw" THEN "throw" ELSE "ok",
                           IF how = "throw" THEN Absent ELSE how)
         IN  IF how = "throw"
             THEN /\ Catch(r, log)
                  /\ UNCHANGED gameState
             ELSE /\ gameState' = [gameState EXCEPT ![r] = game]
                  /\ IF npcState[r].defined /\ playerState[r].defined /\ game.defined
                     THEN /\ calls' = [calls EXCEPT ![r] =
                                Append(log, Issued("generateText",
                                       Prompt(npcState[r], playerState[r], game)))]
                          /\ pc' = [pc EXCEPT ![r] = "awaitText"]
                          /\ UNCHANGED <<promise, displayed>>
                     ELSE Catch(r, log)
    /\ UNCHANGED <<env, mgr, entityId, npcState, playerState, dialogueText,
                   audioData, tx, sp>>

\* await llmService.generateText(prompt) settles; the text is shown and
\* generateSpeech is called
TextSettles(r) ==
    /\ pc[r] = "awaitText"
    /\ \E outcome \in ProviderOutcomes(PartTexts, 1, 1) :
         LET ret == generateText(outcome)
             text == ret.value
             log == Settle(calls[r], IF ret.raised THEN "throw" ELSE "ok", text)
         IN  /\ dialogueText' = [dialogueText EXCEPT ![r] = text]
             /\ IF ret.raised \/ TextFailed(text)
                THEN Catch(r, log)
                ELSE \E sh \in Endings :
                       LET shown == Append(log, Ended("showDialogue",
                                              ShowArgs(text, entityId[r]), sh, Absent))
                       IN  IF sh = "throw"
                           THEN Catch(r, shown)
                           ELSE /\ calls' = [calls EXCEPT ![r] =
                                      Append(shown, Issued("generateSpeech", SpeechArgs(text)))]
                                /\ pc' = [pc EXCEPT ![r] = "awaitSpeech"]
                                /\ displayed' = Show(displayed, text, entityId[r])
                                /\ UNCHANGED promise
    /\ UNCHANGED <<env, mgr, entityId, npcState, playerState, gameState,
                   audioData, tx, sp>>

\* await ttsService.generateSpeech(dialogueText) settles; playAudio is called
\* or the function returns
SpeechSettles(r) ==
    /\ pc[r] = "awaitSpeech"
    /\ \E outcome \in HttpOutcomes({200, 500}, {"", "audio-1"}) :
         LET ret == generateSpeech(outcome)
             audio == ret.value
             log == Settle(calls[r], IF ret.raised THEN "throw" ELSE "ok", audio)
         IN  /\ audioData' = [audioData EXCEPT ![r] = audio]
             /\ IF ret.raised
                THEN Catch(r, log)
                ELSE IF AudioFailed(audio)
                THEN /\ calls' = [calls EXCEPT ![r] = log]
                     /\ pc' = [pc EXCEPT ![r] = "done"]
                     /\ promise' = [promise EXCEPT ![r] = "resolved"]
                     /\ UNCHANGED displayed
                ELSE /\ calls' = [calls EXCEPT ![r] =
                           Append(log, Issued("playAudio", PlayArgs(audio, entityId[r])))]
                     /\ pc' = [pc EXCEPT ![r] = "awaitPlay"]
                     /\ UNCHANGED <<promise, displayed>>
    /\ UNCHANGED <<env, mgr, entityId, npcState, playerState, gameState,
                   dialogueText, tx, sp>>

\* await adapter.playAudio(audioData, { entityId }) settles
PlaySettles(r) ==
    /\ pc[r] = "awaitPlay"
    /\ \E how \in Endings :
         IF how = "throw"
         THEN Catch(r, Settle(calls[r], "throw", Absent))
         ELSE /\ calls' = [calls EXCEPT ![r] = Settle(@, "ok", Absent)]
              /\ pc' = [pc EXCEPT ![r] = "done"]
              /\ promise' = [promise EXCEPT ![r] = "resolved"]
              /\ UNCHANGED displayed
    /\ UNCHANGED <<env, mgr, entityId, npcState, playerState, gameState,
                   dialogueText, audioData, tx, sp>>

Next ==
    \/ Construct
    \/ \E r \in Requests, e \in Entities : Call(r, e)
    \/ \E r \in Requests : EntitySettles(r)
    \/ \E r \in Requests : PlayerSettles(r)
    \/ \E r \in Requests : GameSettles(r)
    \/ \E r \in Requests : TextSettles(r)
    \/ \E r \in Requests : SpeechSettles(r)
    \/ \E r \in Requests : PlaySettles(r)

Spec == Init /\ [][Next]_vars

\* the continuation of request r after the call it awaits has settled
Settles(r) ==
    \/ EntitySettles(r) \/ PlayerSettles(r) \/ GameSettles(r)
    \/ TextSettles(r) \/ SpeechSettles(r) \/ PlaySettles(r)

\* Every adapter and provider call a request awaits settles in the end, and
\* the event loop then runs the request's continuation.
FairSpec == Spec /\ \A r \in Requests : WF_vars(Settles(r))

----------------------------------------------------------------------------
(* The text client on its own: a GeminiService constructed with a key,     *)
(* then generateText calls, each one request to the provider.              *)

Prompts == {"test prompt", "another prompt"}
ClientTexts == {Absent, "", "Hello, world!"}

\* the provider outcomes a stand-alone client is run against
TextOutcomes == ProviderOutcomes(ClientTexts, MaxCands, MaxParts)

NoOutcome == [threw |-> FALSE, hasCandidates |-> FALSE, candidates |-> <<>>]

InitText ==
    /\ env = NoEnv
    /\ mgr = NoManager
    /\ NoRequests
    /\ sp = IdleClient
    /\ tx = [pc |-> "ready", svc |-> GeminiService("key", Absent, env, FALSE),
             ncalls |-> 0, sent |-> 0,
             request |-> [model |-> Absent, role |-> Absent, text |-> Absent],
             outcome |-> NoOutcome, ret |-> Returns(Absent)]

\* generateText(prompt) is called: runs to await generateContent(...)
TxGenerate(prompt) ==
    /\ tx.pc = "ready"
    /\ tx.ncalls < MaxCalls
    /\ tx' = [tx EXCEPT !.pc = "awaiting", !.ncalls = @ + 1, !.sent = @ + 1,
                        !.request = TextRequest(tx.svc, prompt),
                        !.outcome = NoOutcome, !.ret = Returns(Absent)]
    /\ UNCHANGED <<env, mgr, reqVars, sp>>

\* generateContent settles and generateText ends
TxSettles ==
    /\ tx.pc = "awaiting"
    /\ \E outcome \in TextOutcomes :
         tx' = [tx EXCEPT !.pc = "ready", !.outcome = outcome,
                          !.ret = generateText(outcome)]
    /\ UNCHANGED <<env, mgr, reqVars, sp>>

NextText ==
    \/ \E prompt \in Prompts : TxGenerate(prompt)
    \/ TxSettles

SpecText == InitText /\ [][NextText]_vars

----------------------------------------------------------------------------
(* The speech client on its own: an ElevenLabsTTSService constructed with  *)
(* a key, then generateSpeech calls, each one POST to the provider.        *)

SpeechTexts == {"Hello", "Greetings, traveler."}

NoHttp == [fetchThrows |-> FALSE, status |-> 0, body |-> "", readThrows |-> FALSE]
NoPost == [method |-> Absent, voiceId |-> Absent, apiKey |-> Absent,
           text |-> Absent, model_id |-> Absent]

InitSpeech ==
    /\ env = NoEnv
    /\ mgr = NoManager
    /\ NoRequests
    /\ tx = IdleClient
    /\ sp = [pc |-> "ready", svc |-> ElevenLabsTTSService("test-api-key", Absent, env),
             ncalls |-> 0, sent |-> 0, request |-> NoPost,
             outcome |-> NoHttp, ret |-> Returns(Absent)]

\* generateSpeech(text) is called: runs to await fetch(...)
SpGenerate(text) ==
    /\ sp.pc = "ready"
    /\ sp.ncalls < MaxCalls
    /\ sp' = [sp EXCEPT !.pc = "awaiting", !.ncalls = @ + 1, !.sent = @ + 1,
                        !.request = SpeechRequest(sp.svc, text),
                        !.outcome = NoHttp, !.ret = Returns(Absent)]
    /\ UNCHANGED <<env, mgr, reqVars, tx>>

\* the transport settles (the fetch, then the body read) and generateSpeech ends
SpSettles ==
    /\ sp.pc = "awaiting"
    /\ \E outcome \in HttpOutcomes(HttpStatuses, Bodies) :
         sp' = [sp EXCEPT !.pc = "ready", !.outcome = outcome,
                          !.ret = generateSpeech(outcome)]
    /\ UNCHANGED <<env, mgr, reqVars, tx>>

NextSpeech ==
    \/ \E text \in SpeechTexts : SpGenerate(text)
    \/ SpSettles

SpecSpeech == InitSpeech /\ [][NextSpeech]_vars

----------------------------------------------------------------------------
(* The prompt alone: the three records the adapter resolved with, the       *)
(* prompt built from them, and the request generateText makes with it.      *)

EntityNames == {"Mysterious Old Man", "Gate Guard"}
Personalities == {Absent, "", "cryptic and wise"}
PlayerNames == {"Eldrin", "Mira"}
PlayerLevels == {5, 12}
PlayerHealths == {100, 40}
Locations == {"the Whispering Woods", "the Iron Keep"}
TimesOfDay == {"dusk", "dawn"}

EntityStates ==
    {[NoState EXCEPT !.defined = TRUE, !.name = n, !.personality = p] :
        n \in EntityNames, p \in Personalities}
PlayerStates ==
    {[defined |-> TRUE, name |-> n, personality |-> Absent, level |-> l,
      location |-> Absent, timeOfDay |-> Absent, health |-> h] :
        n \in PlayerNames, l \in PlayerLevels, h \in PlayerHealths}
GameStates ==
    {[NoState EXCEPT !.defined = TRUE, !.location = l, !.timeOfDay = t] :
        l \in Locations, t \in TimesOfDay}

InitPrompt ==
    /\ env = NoEnv
    /\ mgr = NoManager
    /\ NoRequests
    /\ \E npc \in EntityStates, player \in PlayerStates, game \in GameStates :
         tx = [pc |-> "context", npc |-> npc, player |-> player, game |-> game,
               svc |-> GeminiService("key", Absent, env, FALSE),
               prompt |-> <<>>,
               request |-> [model |-> Absent, role |-> Absent, text |-> <<>>]]
    /\ sp = IdleClient

\* the template literal
BuildPrompt ==
    /\ tx.pc = "context"
    /\ tx' = [tx EXCEPT !.pc = "prompt",
                        !.prompt = Prompt(tx.npc, tx.player, tx.game)]
    /\ UNCHANGED <<env, mgr, reqVars, sp>>

\* this.llmService.generateText(prompt), up to the provider call
SendPrompt ==
    /\ tx.pc = "prompt"
    /\ tx' = [tx EXCEPT !.pc = "sent",
                        !.request = TextRequest(tx.svc, tx.prompt)]
    /\ UNCHANGED <<env, mgr, reqVars, sp>>

NextPrompt == BuildPrompt \/ SendPrompt

SpecPrompt == InitPrompt /\ [][NextPrompt]_vars

----------------------------------------------------------------------------
(* Both clients with their configuration: the host sets or unsets the model *)
(* variables of process.env at any time, constructs each client once, with  *)
(* or without a model argument, and calls it.                               *)

EnvValues == {Absent, "", "env-model"}
ModelArgValues == {Absent, "", "arg-model"}

NewClient == [pc |-> "new", arg |-> Absent, envAt |-> Absent]

InitClients ==
    /\ env \in [{"GEMINI_MODEL_NAME", "ELEVENLABS_MODEL_ID"} -> EnvValues]
    /\ mgr = NoManager
    /\ NoRequests
    /\ tx = NewClient
    /\ sp = NewClient

\* process.env.NAME = value, or delete process.env.NAME
SetEnv(name, value) ==
    /\ env[name] # value
    /\ env' = [env EXCEPT ![name] = value]
    /\ UNCHANGED <<mgr, reqVars, tx, sp>>

\* new GeminiService("key", modelName)
NewText(modelName) ==
    /\ tx.pc = "new"
    /\ tx' = [pc |-> "ready", arg |-> modelName, envAt |-> env.GEMINI_MODEL_NAME,
              svc |-> GeminiService("key", modelName, env, FALSE),
              ncalls |-> 0, sent |-> 0,
              request |-> [model |-> Absent, role |-> Absent, text |-> Absent],
              outcome |-> NoOutcome, ret |-> Returns(Absent)]
    /\ UNCHANGED <<env, mgr, reqVars, sp>>

\* new ElevenLabsTTSService("test-api-key", modelId)
NewSpeech(modelId) ==
    /\ sp.pc = "new"
    /\ sp' = [pc |-> "ready", arg |-> modelId, envAt |-> env.ELEVENLABS_MODEL_ID,
              svc |-> ElevenLabsTTSService("test-api-key", modelId, env),
              ncalls |-> 0, sent |-> 0, request |-> NoPost,
              outcome |-> NoHttp, ret |-> Returns(Absent)]
    /\ UNCHANGED <<env, mgr, reqVars, tx>>

\* (mutant: a failed provider call is made once more)
TextEndsWithRetry ==
    /\ tx.pc = "awaiting"
    /\ \E outcome \in ProviderOutcomes(ClientTexts, 1, 1) :
         LET ret == generateText(outcome) IN
           tx' = [tx EXCEPT !.pc = "ready", !.ret = ret,
                            !.sent = IF ret.value = Null THEN @ + 1 ELSE @]
    /\ UNCHANGED <<env, mgr, reqVars, sp>>

\* generateContent settles and generateText ends (the response is not kept)
TextEnds ==
    /\ tx.pc = "awaiting"
    /\ \E outcome \in ProviderOutcomes(ClientTexts, 1, 1) :
         tx' = [tx EXCEPT !.pc = "ready", !.ret = generateText(outcome)]
    /\ UNCHANGED <<env, mgr, reqVars, sp>>

\* the transport settles and generateSpeech ends (the response is not kept)
SpeechEnds ==
    /\ sp.pc = "awaiting"
    /\ \E outcome \in HttpOutcomes({200, 401}, {"audio-1"}) :
         sp' = [sp EXCEPT !.pc = "ready", !.ret = generateSpeech(outcome)]
    /\ UNCHANGED <<env, mgr, reqVars, tx>>

NextClients ==
    \/ \E name \in {"GEMINI_MODEL_NAME", "ELEVENLABS_MODEL_ID"}, value \in EnvValues :
         SetEnv(name, value)
    \/ \E modelName \in ModelArgValues : NewText(modelName)
    \/ \E modelId \in ModelArgValues : NewSpeech(modelId)
    \/ TxGenerate("test prompt")
    \/ SpGenerate("Hello")
    \/ TextEnds
    \/ SpeechEnds

SpecClients == InitClients /\ [][NextClients]_vars

----------------------------------------------------------------------------
(* Reading a request's log *)

\* the positions of the calls of op in a log
At(log, op) == {i \in 1..Len(log) : log[i].op = op}

FetchOps == {"getEntityState", "getPlayerState", "getGameState"}

\* generateText was called and returned the value v
TextReturned(log, v) ==
    \E i \in At(log, "generateText") : log[i].res = "ok" /\ log[i].val = v

\* generateSpeech was called and returned the value v
SpeechReturned(log, v) ==
    \E i \in At(log, "generateSpeech") : log[i].res = "ok" /\ log[i].val = v

\* the fallback text was shown (or its display attempted)
FallbackShown(log) ==
    \E i \in At(log, "showDialogue") : log[i].args[1] = Fallback

GeneratedTexts == PartTexts \ {Absent, ""}
AudioPayloads == {"", "audio-1"}

----------------------------------------------------------------------------
(* Claims about the orchestrator, checked under Spec *)

\* the case of C1: every call of the request ended well, the entity was known,
\* the text client returned the text T and the speech client the audio A
HappyCase(log, T, A) ==
    /\ Len(log) > 0
    /\ \A i \in 1..Len(log) : log[i].res = "ok"
    /\ log[1].val = "ok"
    /\ TextReturned(log, T)
    /\ SpeechReturned(log, A)

\* C1: when the three state fetches succeed, generateText returns a non-empty
\* text T, generateSpeech returns audio A and showDialogue and playAudio
\* succeed, the call shows T for its entity, then plays A for its entity,
\* passes exactly T to generateSpeech and never shows the fallback "...".
C1_HappyPath ==
    \A r \in Requests : \A T \in GeneratedTexts, A \in AudioPayloads :
      LET log == calls[r]
          e == entityId[r]
      IN  HappyCase(log, T, A) =>
            /\ [i \in 1..Len(log) |-> log[i].op] =
                   <<"getEntityState", "getPlayerState", "getGameState",
                     "generateText", "showDialogue", "generateSpeech", "playAudio">>
            /\ log[5].args = <<T, e>>
            /\ log[6].args = <<T>>
            /\ log[7].args = <<A, e>>
            /\ ~FallbackShown(log)
            /\ pc[r] = "done" /\ promise[r] = "resolved"

C1_Witness ==
    \E r \in Requests :
      /\ pc[r] = "done"
      /\ HappyCase(calls[r], "Greetings, traveler.", "audio-1")
      /\ entityId[r] = "npc-1"

\* C2: if generateText returns null, showDialogue("...", {entityId}) is
\* called, and generateSpeech and playAudio are never called in that call.
C2_NullTextShowsFallback ==
    \A r \in Requests :
      LET log == calls[r] IN
        TextReturned(log, Null) =>
          /\ Len(log) = 5
          /\ log[5].op = "showDialogue"
          /\ log[5].args = <<Fallback, entityId[r]>>
          /\ At(log, "generateSpeech") = {}
          /\ At(log, "playAudio") = {}

C2_Witness ==
    \E r \in Requests :
      /\ TextReturned(calls[r], Null)
      /\ pc[r] = "done"
      /\ entityId[r] = "npc-2"

\* C3: if generateText returns a text T and generateSpeech then returns null,
\* the call shows T for its entity, never calls playAudio and makes no
\* adapter call after the speech failure; the fallback is not shown.
C3_NullSpeechKeepsText ==
    \A r \in Requests : \A T \in GeneratedTexts :
      LET log == calls[r] IN
        TextReturned(log, T) /\ SpeechReturned(log, Null) =>
          /\ Len(log) = 6
          /\ log[5] = Ended("showDialogue", <<T, entityId[r]>>, "ok", Absent)
          /\ log[6].op = "generateSpeech"
          /\ At(log, "playAudio") = {}
          /\ ~FallbackShown(log)
          /\ pc[r] = "done" /\ promise[r] = "resolved"

C3_Witness ==
    \E r \in Requests :
      /\ TextReturned(calls[r], "Hello, world!")
      /\ SpeechReturned(calls[r], Null)
      /\ pc[r] = "done"

\* C4: generateNpcDialogue never lets an exception escape: whatever the
\* adapter methods and the two clients do, the promise it returned never
\* rejects.
C4_NeverRejects ==
    \A r \in Requests : promise[r] # "rejected"

\* an exception was raised inside the try block of the request: an awaited
\* call rejected or showDialogue threw, the text client returned null (the
\* explicit throw), or the prompt was built from an undefined entity state
RaisedInTry(log) ==
    \/ \E i \in 1..Len(log) :
         /\ log[i].res = "throw"
         /\ ~(i = Len(log) /\ log[i].op = "showDialogue" /\ log[i].args[1] = Fallback)
    \/ TextReturned(log, Null)
    \/ /\ Len(log) >= 3
       /\ log[3].res = "ok"
       /\ \E i \in 1..3 : log[i].val = "undefined"

\* C5: whenever an exception is raised at any step of generateNpcDialogue(e),
\* the orchestrator calls showDialogue("...", {entityId: e}) and that is the
\* last adapter call of the request; after a failed state fetch neither
\* generateText nor generateSpeech nor playAudio is called.
C5_ExceptionShowsFallbackLast ==
    \A r \in Requests :
      LET log == calls[r] IN
        /\ RaisedInTry(log) =>
             /\ log[Len(log)].op = "showDialogue"
             /\ log[Len(log)].args = <<Fallback, entityId[r]>>
             /\ log[Len(log)].res # "pending"
             /\ pc[r] = "done"
        /\ \A i \in 1..Len(log) :
             log[i].op \in FetchOps /\ log[i].res = "throw" =>
               /\ Len(log) = i + 1
               /\ At(log, "generateText") = {}
               /\ At(log, "generateSpeech") = {}
               /\ At(log, "playAudio") = {}

C5_Witness ==
    \E r \in Requests :
      LET log == calls[r] IN
        /\ pc[r] = "done"
        /\ \E i \in At(log, "playAudio") : log[i].res = "throw"
        /\ RaisedInTry(log)

\* C6: every generateNpcDialogue(e) call that has ended, whatever the backends
\* did, has made at least one showDialogue call for e, and every text it
\* showed is the text its generateText call returned or the fallback "...".
C6_DialogueAlwaysShown ==
    \A r \in Requests :
      LET log == calls[r] IN
        /\ pc[r] = "done" =>
             \E i \in At(log, "showDialogue") : log[i].args[2] = entityId[r]
        /\ \A i \in At(log, "showDialogue") :
             \/ log[i].args[1] = Fallback
             \/ /\ Truthy(log[i].args[1])
                /\ TextReturned(log, log[i].args[1])

C6_Witness ==
    \E r \in Requests :
      LET log == calls[r] IN
        /\ pc[r] = "done"
        /\ promise[r] = "resolved"
        /\ \E i \in At(log, "getEntityState") : log[i].res = "throw"

\* C7: playAudio is attempted only in a call where generateText and
\* generateSpeech both returned non-null results, and after playAudio rejects
\* no further adapter call is made: the generated text is not replaced by
\* the fallback "...".
C7_PlayFailureIsSilent ==
    \A r \in Requests :
      LET log == calls[r] IN
        \A i \in At(log, "playAudio") :
          /\ \E T \in GeneratedTexts : TextReturned(log, T)
          /\ \E A \in AudioPayloads : SpeechReturned(log, A)
          /\ log[i].res = "throw" =>
               /\ i = Len(log)
               /\ ~FallbackShown(log)

\* C10: constructing the speech client with an empty or absent API key fails
\* with 'ElevenLabs API key is required.' before any request can be issued,
\* construction succeeds for every non-empty key, and so constructing the
\* orchestrator with an empty elevenLabsApiKey raises.
C10_SpeechKeyRequired ==
    LET key == mgr.options.elevenLabsApiKey IN
      mgr.status # "none" =>
        /\ ~mgr.llm.threw =>
             /\ mgr.tts.threw <=> key \in {Absent, ""}
             /\ mgr.tts.threw =>
                  /\ mgr.tts.error = "ElevenLabs API key is required."
                  /\ mgr.error = "ElevenLabs API key is required."
        /\ key \in {Absent, ""} => mgr.status = "threw"
        /\ mgr.status = "threw" => \A r \in Requests : calls[r] = <<>>

C10_Witness ==
    /\ mgr.status = "threw"
    /\ mgr.options.elevenLabsApiKey = ""
    /\ mgr.options.geminiApiKey = "key"
    /\ mgr.tts.threw

----------------------------------------------------------------------------
(* Claims about the text client, checked under SpecText *)

\* a generateText call has ended
TextCallEnded == tx.pc = "ready" /\ tx.ncalls > 0

\* the non-empty texts found anywhere in a provider response
TextsIn(outcome) ==
    {t \in ClientTexts \ {Absent, ""} :
        /\ ~outcome.threw
        /\ \E i \in 1..Len(outcome.candidates) :
             \E j \in 1..Len(outcome.candidates[i].parts) :
               outcome.candidates[i].parts[j] = t}

\* C8 as stated: generateText returns the provider's text exactly when the
\* response contains at least one candidate with a non-empty text part, and
\* returns null, never raising, in every other case.
C8_AnyCandidateText ==
    TextCallEnded =>
      /\ ~tx.ret.raised
      /\ IF TextsIn(tx.outcome) # {}
         THEN tx.ret.value \in TextsIn(tx.outcome)
         ELSE tx.ret.value = Null

\* C8 (amended): generateText returns the text of the first part of the
\* first candidate exactly when that part exists and its text is non-empty,
\* and returns null, never raising, in every other case: the provider call
\* throwing, no candidates, a first candidate without content, parts or
\* text, or an empty text there, whatever the other candidates and parts hold.
C8_FirstCandidateFirstPart ==
    TextCallEnded =>
      LET o == tx.outcome
          usable == /\ ~o.threw
                    /\ o.hasCandidates
                    /\ Len(o.candidates) >= 1
                    /\ o.candidates[1].hasContent
                    /\ o.candidates[1].hasParts
                    /\ Len(o.candidates[1].parts) >= 1
                    /\ o.candidates[1].parts[1] \notin {Absent, Null, ""}
      IN  /\ ~tx.ret.raised
          /\ usable => tx.ret.value = o.candidates[1].parts[1]
          /\ ~usable => tx.ret.value = Null

C8_Witness ==
    /\ TextCallEnded
    /\ ~tx.outcome.threw
    /\ Len(tx.outcome.candidates) = 2
    /\ tx.outcome.candidates[1].parts = <<"">>
    /\ tx.outcome.candidates[2].parts = <<"Hello, world!">>
    /\ tx.ret = Returns(Null)

----------------------------------------------------------------------------
(* Claims about the speech client, checked under SpecSpeech *)

\* a generateSpeech call has ended
SpeechCallEnded == sp.pc = "ready" /\ sp.ncalls > 0

\* C9: generateSpeech returns the provider's raw response bytes unmodified
\* exactly when the response has a success status (and its body could be
\* read), and returns null, never raising, on a non-success status or a
\* transport exception, a failure to read the response body included.
C9_BytesOnSuccessOnly ==
    SpeechCallEnded =>
      LET o == sp.outcome
          success == ~o.fetchThrows /\ o.status \in 200..299 /\ ~o.readThrows
      IN  /\ ~sp.ret.raised
          /\ success => sp.ret.value = o.body
          /\ ~success => sp.ret.value = Null

C9_Witness ==
    /\ SpeechCallEnded
    /\ ~sp.outcome.fetchThrows
    /\ sp.outcome.status = 204
    /\ sp.outcome.readThrows
    /\ sp.outcome.body = "audio-2"
    /\ sp.ret = Returns(Null)

----------------------------------------------------------------------------
(* Claims about the clients' configuration and requests, under SpecClients *)

\* C11 as stated: the model sent in every request is the constructor
\* argument whenever one is supplied, otherwise the environment variable as
\* set at construction time, otherwise the fixed default.
C11_ArgumentWheneverSupplied ==
    /\ tx.pc # "new" /\ tx.sent > 0 =>
         tx.request.model =
            IF tx.arg # Absent THEN tx.arg
            ELSE IF tx.envAt # Absent THEN tx.envAt ELSE "gemini-1.5-flash"
    /\ sp.pc # "new" /\ sp.sent > 0 =>
         sp.request.model_id =
            IF sp.arg # Absent THEN sp.arg
            ELSE IF sp.envAt # Absent THEN sp.envAt ELSE "eleven_multilingual_v2"

\* C11 (amended): for both clients the model sent in every request is the
\* value resolved once at construction: the constructor argument whenever a
\* non-empty one is supplied, otherwise the environment variable
\* (GEMINI_MODEL_NAME / ELEVENLABS_MODEL_ID) as set at construction time if
\* it is non-empty, otherwise the fixed default; no generate call and no
\* later change of the environment variable alters it.
C11_ModelResolvedOnce ==
    /\ tx.pc # "new" =>
         LET resolved == IF tx.arg \notin {Absent, ""} THEN tx.arg
                         ELSE IF tx.envAt \notin {Absent, ""} THEN tx.envAt
                         ELSE "gemini-1.5-flash"
         IN  /\ tx.svc.modelName = resolved
             /\ tx.sent > 0 => tx.request.model = resolved
    /\ sp.pc # "new" =>
         LET resolved == IF sp.arg \notin {Absent, ""} THEN sp.arg
                         ELSE IF sp.envAt \notin {Absent, ""} THEN sp.envAt
                         ELSE "eleven_multilingual_v2"
         IN  /\ sp.svc.modelId = resolved
             /\ sp.sent > 0 => sp.request.model_id = resolved

C11_Witness ==
    /\ tx.pc = "awaiting" /\ tx.ncalls = 2
    /\ tx.arg = "" /\ tx.envAt = "env-model" /\ env.GEMINI_MODEL_NAME = Absent
    /\ tx.request.model = "env-model"
    /\ sp.pc = "awaiting"
    /\ sp.arg = Absent /\ sp.envAt = Absent /\ env.ELEVENLABS_MODEL_ID = "env-model"
    /\ sp.request.model_id = "eleven_multilingual_v2"

\* C18: each generateText call issues exactly one request to the provider
\* and each generateSpeech call exactly one HTTP POST, whether the request
\* succeeds or fails; a failed request is never issued again.
C18_OneRequestPerCall ==
    /\ tx.pc # "new" => tx.sent = tx.ncalls
    /\ sp.pc # "new" =>
         /\ sp.sent = sp.ncalls
         /\ sp.sent > 0 => sp.request.method = "POST"

C18_Witness ==
    /\ tx.pc = "ready" /\ tx.ncalls = 2 /\ tx.ret = Returns(Null)
    /\ sp.pc = "ready" /\ sp.ncalls = 1 /\ sp.ret = Returns(Null)

----------------------------------------------------------------------------
(* Claims about the orchestrator, continued (under Spec) *)

\* C12: the text client requires a non-empty API key at construction:
\* constructing it (or the orchestrator) with an empty or absent LLM key
\* raises at once, so no text client instance holding an empty key exists.
C12_TextKeyRequired ==
    mgr.status # "none" =>
        /\ ~Truthy(mgr.options.geminiApiKey) =>
              mgr.status = "threw" /\ mgr.llm.threw
        /\ ~mgr.llm.threw => Truthy(mgr.llm.apiKey)

----------------------------------------------------------------------------
(* Claims about the prompt, under SpecPrompt *)

\* the five interpolations that are never replaced
PlainFields ==
    /\ tx.prompt[1] = tx.npc.name
    /\ tx.prompt[3] = tx.player.name
    /\ tx.prompt[4] = ToString(tx.player.level)
    /\ tx.prompt[5] = tx.game.location
    /\ tx.prompt[6] = tx.game.timeOfDay

\* the request carries the prompt as it is, in one message of role user
SentVerbatim ==
    tx.pc = "sent" => tx.request.text = tx.prompt /\ tx.request.role = "user"

\* C13 as stated: the prompt is a function of exactly six context fields:
\* it contains the entity name, the player name and level, the location and
\* the time of day of that request, and the entity personality, replaced by
\* 'a mysterious stranger' exactly when the personality is absent; it is
\* passed to the provider verbatim as a single user-role message.
C13_DefaultExactlyWhenAbsent ==
    tx.pc \in {"prompt", "sent"} =>
        /\ Len(tx.prompt) = 6
        /\ PlainFields
        /\ tx.prompt[2] = IF tx.npc.personality = Absent
                          THEN "a mysterious stranger" ELSE tx.npc.personality
        /\ SentVerbatim

\* C13 (amended): as stated, except that the personality is replaced by
\* 'a mysterious stranger' exactly when it is absent or the empty string.
C13_DefaultWhenAbsentOrEmpty ==
    tx.pc \in {"prompt", "sent"} =>
        /\ Len(tx.prompt) = 6
        /\ PlainFields
        /\ tx.prompt[2] = IF tx.npc.personality \in {Absent, ""}
                          THEN "a mysterious stranger" ELSE tx.npc.personality
        /\ SentVerbatim

C13_Witness ==
    /\ tx.pc = "sent"
    /\ tx.npc.personality = ""
    /\ tx.player.health = 40
    /\ tx.request.text = <<"Gate Guard", "a mysterious stranger", "Mira", "12",
                           "the Iron Keep", "dawn">>

\* the external calls of one generateNpcDialogue call, in program order
Chain == <<"getEntityState", "getPlayerState", "getGameState", "generateText",
           "showDialogue", "generateSpeech", "playAudio">>

\* the log ends with the fallback showDialogue("...")
EndsWithFallback(r) ==
    /\ Len(calls[r]) > 0
    /\ calls[r][Len(calls[r])].op = "showDialogue"
    /\ calls[r][Len(calls[r])].args = FallbackArgs(entityId[r])

Last(log) == log[Len(log)]

\* the generated text of request r was shown (the call returned)
TextShown(r) ==
    \E i \in At(calls[r], "showDialogue") :
        /\ calls[r][i].res = "ok"
        /\ calls[r][i].args[1] = dialogueText[r]
        /\ dialogueText[r] \in GeneratedTexts

\* the three ways a call ends: after playAudio resolved, at the return for
\* missing audio, after the fallback showDialogue of the catch block
ShownAndPlayed(r) ==
    TextShown(r) /\ Last(calls[r]).op = "playAudio" /\ Last(calls[r]).res = "ok"
ShownWithoutAudio(r) ==
    /\ TextShown(r)
    /\ Last(calls[r]).op = "generateSpeech"
    /\ Last(calls[r]).res = "ok" /\ Last(calls[r]).val = Null
FallbackOutcome(r) == EndsWithFallback(r)

ExactlyOneOutcome(r) ==
    \/ ShownAndPlayed(r) /\ ~ShownWithoutAudio(r) /\ ~FallbackOutcome(r)
    \/ ~ShownAndPlayed(r) /\ ShownWithoutAudio(r) /\ ~FallbackOutcome(r)
    \/ ~ShownAndPlayed(r) /\ ~ShownWithoutAudio(r) /\ FallbackOutcome(r)

\* C15: if every adapter and provider call a request awaits eventually
\* settles, every generateNpcDialogue call eventually ends, having reached
\* exactly one of its terminal outcomes (generated text shown and audio
\* played, generated text shown without audio, fallback text shown), and
\* stays ended: no loop or retry keeps a request running.
C15_EveryCallEnds ==
    \A r \in Requests :
        /\ (pc[r] # "idle") ~> (pc[r] = "done" /\ ExactlyOneOutcome(r))
        /\ [](pc[r] = "done" => [](pc[r] = "done" /\ ExactlyOneOutcome(r)))

C15_Witness ==
    /\ pc[1] = "done" /\ ShownAndPlayed(1)
    /\ pc[2] = "done" /\ FallbackOutcome(2) /\ ~TextShown(2)

\* C16: overlapping generateNpcDialogue calls on one orchestrator are not
\* coordinated: a call can start whatever the calls before it are doing,
\* and the continuation of a running call never waits for another call, the
\* same entity included; so the call started later can show its dialogue
\* before the one started earlier, and a second playAudio for the entity
\* can be issued while the first is pending (the witness).
C16_NotCoordinated ==
    \A r \in Requests :
        /\ mgr.status = "ok" /\ pc[r] = "idle" /\ (\A q \in Requests : q < r => pc[q] # "idle")
              => \A e \in Entities : ENABLED Call(r, e)
        /\ pc[r] \notin {"idle", "done"} => ENABLED Settles(r)

\* both calls are for one entity and wait for their playAudio; the entity
\* shows the text of call 1, so call 2, started later, showed its text first
C16_Witness ==
    /\ pc[1] = "awaitPlay" /\ pc[2] = "awaitPlay"
    /\ entityId[1] = entityId[2]
    /\ dialogueText[1] # dialogueText[2]
    /\ displayed[entityId[1]] = dialogueText[1]
    /\ Last(calls[1]) = Issued("playAudio", PlayArgs(audioData[1], entityId[1]))
    /\ Last(calls[2]) = Issued("playAudio", PlayArgs(audioData[2], entityId[2]))

\* C17: under every interleaving of concurrent generateNpcDialogue calls,
\* each call uses only its own values: the text it passes to showDialogue
\* and to generateSpeech is the text its own generateText returned, the
\* bytes it passes to playAudio are those its own generateSpeech returned,
\* and every getEntityState, showDialogue and playAudio it issues carries
\* its own entityId.
C17_OwnValuesOnly ==
    \A r \in Requests :
        LET log == calls[r] IN
        \A i \in 1..Len(log) :
            /\ log[i].op = "getEntityState" => log[i].args = <<entityId[r]>>
            /\ log[i].op = "showDialogue" =>
                  /\ log[i].args[2] = entityId[r]
                  /\ \/ log[i].args[1] = Fallback
                     \/ /\ TextReturned(SubSeq(log, 1, i - 1), log[i].args[1])
                        /\ log[i].args[1] = dialogueText[r]
            /\ log[i].op = "generateSpeech" =>
                  /\ TextReturned(SubSeq(log, 1, i - 1), log[i].args[1])
                  /\ log[i].args = <<dialogueText[r]>>
            /\ log[i].op = "playAudio" =>
                  /\ SpeechReturned(SubSeq(log, 1, i - 1), log[i].args[1])
                  /\ log[i].args = <<audioData[r], entityId[r]>>

\* two overlapping calls with different entities, texts and audio
C17_Witness ==
    /\ pc[1] = "awaitPlay" /\ pc[2] = "awaitPlay"
    /\ entityId[1] # entityId[2]
    /\ dialogueText[1] # dialogueText[2]
    /\ audioData[1] # audioData[2]
    /\ Last(calls[1]).args = <<audioData[1], entityId[1]>>
    /\ Last(calls[2]).args = <<audioData[2], entityId[2]>>

====
